---- MODULE Spec2Model ----
(***************************************************************************)
(* Model of tasks/debugging/dump.py: the artifact / symbol cache of the    *)
(* crash-dump debugging tasks (PathStore, SymbolStore, Artifacts,          *)
(* ArtifactStore) and the resolution logic built on it                     *)
(* (get_or_fetch_artifacts, get_symbols_for_job_id).                       *)
(*                                                                         *)
(* Representation.                                                         *)
(*  - A text (Python str / bytes) is a sequence of symbols; the symbol " "  *)
(*    is whitespace, every other symbol is a run of non-blank characters   *)
(*    without "/" (a word, or a suffix such as ".debug.zip").              *)
(*  - A string that is used as a path ("<project>/<job>/version.txt") is   *)
(*    the sequence of its "/"-separated segments, each a text.             *)
(*  - A path (pathlib.Path) is [abs, parts]: whether it is absolute and    *)
(*    its components.                                                      *)
(*  - The filesystem is [dirs, files]: the set of directories and the      *)
(*    content of every regular file.                                       *)
(***************************************************************************)
EXTENDS Integers, Sequences, FiniteSets, TLC

VARIABLES env, active_project, fs, handles, created, addedPairs, loaded, written, nsets,
          nfaults, fetches, okFetch, resolved, last

vars == <<env, active_project, fs, handles, created, addedPairs, loaded, written, nsets,
          nfaults, fetches, okFetch, resolved, last>>

----------------------------------------------------------------------------
(* Texts *)

W(s) == <<s>>

EmptyText == <<>>

Blank == " "

RECURSIVE lstrip(_)
lstrip(t) == IF t # <<>> /\ Head(t) = Blank THEN lstrip(Tail(t)) ELSE t

RECURSIVE rstrip(_)
rstrip(t) == IF t # <<>> /\ t[Len(t)] = Blank THEN rstrip(SubSeq(t, 1, Len(t) - 1)) ELSE t

\* str.strip(): leading and trailing whitespace removed, inner whitespace kept
strip(t) == rstrip(lstrip(t))

\* str.encode('utf-8') / bytes.decode('utf-8'): each symbol of a text becomes
\* its byte sequence, written <<"utf8", symbol>>, and back
encode(t) == [i \in 1..Len(t) |-> <<"utf8", t[i]>>]

decode(b) == [i \in 1..Len(b) |-> b[i][2]]

\* str.removesuffix(suffix), for a one-symbol suffix
removesuffix(t, suffix) == IF t # <<>> /\ t[Len(t)] = suffix THEN SubSeq(t, 1, Len(t) - 1) ELSE t

endswith(t, suffix) == t # <<>> /\ t[Len(t)] = suffix

\* Optional values (None | value)
None == [set |-> FALSE, val |-> <<>>]

Some(v) == [set |-> TRUE, val |-> v]

\* `x = v` followed by the statements F that use x: the value of F at v
Then(v, F(_)) == CHOOSE out \in {F(x) : x \in {v}} : TRUE

\* truthiness of `str | None`: None and '' are falsy
Truthy(o) == o.set /\ o.val # <<>>

----------------------------------------------------------------------------
(* Paths (pathlib) *)

NoPath == [set |-> FALSE, abs |-> FALSE, parts |-> <<>>]

SomePath(p) == [set |-> TRUE, abs |-> p.abs, parts |-> p.parts]

PathOf(o) == [abs |-> o.abs, parts |-> o.parts]

\* Path(s) for a string s given by its "/"-separated segments: a leading empty
\* segment is a leading "/", other empty segments are dropped
ParsePath(segs) ==
    [abs   |-> Len(segs) > 1 /\ segs[1] = EmptyText,
     parts |-> SelectSeq(segs, LAMBDA s : s # EmptyText)]

\* str(path), as "/"-separated segments
StrOfPath(p) == IF p.abs THEN <<EmptyText>> \o p.parts ELSE p.parts

\* a / b: an absolute right operand replaces the left one
Join(a, b) == IF b.abs THEN b ELSE [abs |-> a.abs, parts |-> a.parts \o b.parts]

Parent(p) == [abs |-> p.abs, parts |-> SubSeq(p.parts, 1, Len(p.parts) - 1)]

\* p and its ancestors below the filesystem root / the working directory
Ancestors(p) == {[abs |-> p.abs, parts |-> SubSeq(p.parts, 1, k)] : k \in 1..Len(p.parts)}

IsUnder(q, p) ==
    /\ q.abs = p.abs
    /\ Len(q.parts) >= Len(p.parts)
    /\ SubSeq(q.parts, 1, Len(p.parts)) = p.parts

----------------------------------------------------------------------------
(* Filesystem *)

EmptyFS == [dirs |-> {}, files |-> <<>>]

IsFile(f, p) == p \in DOMAIN f.files

IsDir(f, p) == p \in f.dirs \/ p.parts = <<>>

\* Path.exists()
Exists(f, p) == IsDir(f, p) \/ IsFile(f, p)

\* Path.mkdir(parents=True, exist_ok=True): fails when p or an ancestor is a file
mkdir(f, p) ==
    IF \E a \in Ancestors(p) : IsFile(f, a)
    THEN [err |-> "FileExistsError", fs |-> f]
    ELSE [err |-> "", fs |-> [f EXCEPT !.dirs = @ \cup Ancestors(p)]]

\* Path.write_bytes(data), the parent being a directory
write_bytes(f, p, data) ==
    IF IsDir(f, p) \/ ~IsDir(f, Parent(p))
    THEN [err |-> "OSError", fs |-> f]
    ELSE [err |-> "", fs |-> [f EXCEPT !.files = (p :> data) @@ @]]

\* files and directories strictly below directory p
FilesUnder(f, p) == {q \in DOMAIN f.files : IsUnder(q, p) /\ q # p}

DirsUnder(f, p) == {q \in f.dirs : IsUnder(q, p) /\ q # p}

\* shutil.rmtree / TemporaryDirectory cleanup / os.remove
remove(f, p) ==
    [dirs  |-> {d \in f.dirs : ~IsUnder(d, p)},
     files |-> [q \in {x \in DOMAIN f.files : ~IsUnder(x, p)} |-> f.files[q]]]

\* directory p and what is below it
SubTree(f, p) ==
    [dirs  |-> {d \in f.dirs : IsUnder(d, p)},
     files |-> [q \in {x \in DOMAIN f.files : IsUnder(x, p)} |-> f.files[q]]]

\* q, a path below src, moved below dst
Rebase(q, src, dst) ==
    [abs |-> dst.abs, parts |-> dst.parts \o SubSeq(q.parts, Len(src.parts) + 1, Len(q.parts))]

\* where shutil.copy2 puts source file q: copy2 onto an existing directory
\* copies into it under the source's base name
CopyTarget(f, q, src, dst) ==
    LET t == Rebase(q, src, dst)
    IN  IF IsDir(f, t) THEN Join(t, [abs |-> FALSE, parts |-> <<q.parts[Len(q.parts)]>>]) ELSE t

\* a source file that copytree cannot copy: a file is in the way of one of its
\* directories, or a directory is in the way of the file itself
CopyBlocked(f, q, src, dst) ==
    LET t == CopyTarget(f, q, src, dst)
    IN  \/ \E a \in Ancestors(Parent(t)) : IsFile(f, a)
        \/ IsDir(f, t)

DirBlocked(f, d, src, dst) == \E a \in Ancestors(Rebase(d, src, dst)) : IsFile(f, a)

\* shutil.copytree(src, dst, dirs_exist_ok=True), dst being a directory: every
\* source directory is created, every source file copied over what is there;
\* an entry that cannot be copied is skipped and reported at the end.
\* done: the source files and directories reached before an interruption
\* (all of them when the copy runs to its end)
copytree(f, src, dst, done) ==
    LET srcFiles == FilesUnder(f, src)
        srcDirs  == DirsUnder(f, src)
        okFiles  == {q \in srcFiles \cap done : ~CopyBlocked(f, q, src, dst)}
        okDirs   == {d \in srcDirs \cap done : ~DirBlocked(f, d, src, dst)}
        newDirs  == UNION {Ancestors(Rebase(d, src, dst)) : d \in okDirs}
                    \cup UNION {Ancestors(Parent(CopyTarget(f, q, src, dst))) : q \in okFiles}
        newFiles == {CopyTarget(f, q, src, dst) : q \in okFiles}
        from(t)  == CHOOSE q \in okFiles : CopyTarget(f, q, src, dst) = t
        whole    == (srcFiles \cup srcDirs) \subseteq done
    IN  [err |-> IF ~whole \/ okFiles # srcFiles \/ okDirs # srcDirs THEN "shutil.Error" ELSE "",
         fs  |-> [dirs  |-> f.dirs \cup newDirs,
                  files |-> [t \in DOMAIN f.files \cup newFiles |->
                                IF t \in newFiles THEN f.files[from(t)] ELSE f.files[t]]]]

----------------------------------------------------------------------------
(* class PathStore.  `path` is the store's root, f the filesystem; `fault`   *)
(* names the statement at which the filesystem raises ("" for none).       *)

PathStore_add(path, f, key, data, fault) ==
    LET file_path == Join(path, ParsePath(key))
        made      == mkdir(f, Parent(file_path))
    IN  IF fault = "mkdir" THEN [err |-> "OSError", fs |-> f]
        ELSE IF made.err # "" THEN made
        ELSE IF fault = "open" THEN [err |-> "OSError", fs |-> made.fs]
        ELSE IF fault = "write"
             \* open(..., 'wb') has truncated the file when the write fails
             THEN [err |-> "OSError", fs |-> write_bytes(made.fs, file_path, <<>>).fs]
        ELSE write_bytes(made.fs, file_path, data)

PathStore_get(path, f, key) ==
    LET file_path == Join(path, ParsePath(key))
    IN  IF ~Exists(f, file_path) THEN [err |-> "", data |-> None]
        ELSE IF IsDir(f, file_path) THEN [err |-> "IsADirectoryError", data |-> None]
        ELSE [err |-> "", data |-> Some(f.files[file_path])]

PathStore_add_directory(path, f, key, src, fault, done) ==
    LET dst  == Join(path, ParsePath(key))
        made == mkdir(f, dst)
    IN  IF fault = "mkdir" THEN [err |-> "OSError", fs |-> f]
        ELSE IF made.err # "" THEN made
        ELSE copytree(made.fs, src, dst, done)

PathStore_get_directory(path, f, key) ==
    LET dir_path == Join(path, ParsePath(key))
    IN  IF Exists(f, dir_path) THEN SomePath(dir_path) ELSE NoPath

----------------------------------------------------------------------------
(* class SymbolStore(PathStore) *)

\* Path(self.path, version, 'symbols')
SymbolStore_dst(path, version) ==
    Join(Join(path, ParsePath(<<version>>)), ParsePath(<<W("symbols")>>))

SymbolStore_add(path, f, version, src, fault, done) ==
    LET dst == SymbolStore_dst(path, version)
    IN  Then(PathStore_add_directory(path, f, StrOfPath(dst), src, fault, done), LAMBDA r :
            [err |-> r.err, fs |-> r.fs, ret |-> IF r.err = "" THEN SomePath(dst) ELSE NoPath])

SymbolStore_get(path, f, version) ==
    PathStore_get_directory(path, f, StrOfPath(SymbolStore_dst(path, version)))

----------------------------------------------------------------------------
(* class Artifacts.  A handle is the object's attributes                    *)
(* [project, job, version, pipeline] (_project, _job, _version, _pipeline); *)
(* `path` is the root of the PathStore it was given.                        *)

\* str() of a value put in an f-string: None prints as "None"
Format(o) == IF o.set THEN o.val ELSE W("None")

Artifacts_init(project, job) ==
    [project |-> project, job |-> job, version |-> None, pipeline |-> None]

\* f"{project}/{job}", as "/"-separated segments
makekey(project, job) == <<Format(project), Format(job)>>

Artifacts_key(h) == makekey(h.project, h.job)

\* f"{self.key()}/artifacts"
ArtifactsDirKey(h) == Artifacts_key(h) \o <<W("artifacts")>>

\* f"{self.key()}/{attr}.txt"
TextKey(h, attr) == Artifacts_key(h) \o << <<attr, ".txt">> >>

Artifacts_get(path, f, h) == PathStore_get_directory(path, f, ArtifactsDirKey(h))

Artifacts_add(path, f, h, src, fault, done) ==
    PathStore_add_directory(path, f, ArtifactsDirKey(h), src, fault, done)

\* a getter that never reads the backing entry
get_text_property_unread(path, f, h, attr) ==
    [h |-> h, ret |-> h[attr], read |-> FALSE, err |-> ""]

\* _get_text_property: [h: the handle afterwards, ret: the value returned,
\* read: whether the store was read, err]
get_text_property(path, f, h, attr) ==
    LET value == h[attr]
        got   == PathStore_get(path, f, TextKey(h, attr))
    IN  IF value.set THEN [h |-> h, ret |-> value, read |-> FALSE, err |-> ""]
        ELSE IF got.err # "" THEN [h |-> h, ret |-> None, read |-> TRUE, err |-> got.err]
        ELSE IF ~Truthy(got.data) THEN [h |-> h, ret |-> None, read |-> TRUE, err |-> ""]
        ELSE LET loadedValue == strip(decode(got.data.val))
             IN  [h |-> [h EXCEPT ![attr] = Some(loadedValue)], ret |-> Some(loadedValue),
                  read |-> TRUE, err |-> ""]

\* a setter that updates the field in memory whatever became of the write
set_text_property_eager(path, f, h, attr, value, fault) ==
    LET put == PathStore_add(path, f, TextKey(h, attr), encode(value), fault)
    IN  [h |-> [h EXCEPT ![attr] = Some(value)], fs |-> put.fs, err |-> put.err]

\* _set_text_property: [h, fs, err]
set_text_property(path, f, h, attr, value, fault) ==
    LET put == PathStore_add(path, f, TextKey(h, attr), encode(value), fault)
    IN  IF put.err # "" THEN [h |-> h, fs |-> put.fs, err |-> put.err]
        ELSE [h |-> [h EXCEPT ![attr] = Some(value)], fs |-> put.fs, err |-> ""]

----------------------------------------------------------------------------
(* class ArtifactStore; `path` is the root of its PathStore                 *)

\* add: [h, fs, err]; artifacts_path is an optional path
ArtifactStore_add(path, f, project_id, job_id, artifacts_path, fault, done) ==
    LET artifacts == Artifacts_init(project_id, job_id)
    IN  IF artifacts_path.set
        THEN Then(Artifacts_add(path, f, artifacts, PathOf(artifacts_path), fault, done), LAMBDA put :
                 [h |-> artifacts, fs |-> put.fs, err |-> put.err])
        ELSE [h |-> artifacts, fs |-> f, err |-> ""]

\* get: [set, h]
ArtifactStore_get(path, f, project_id, job_id) ==
    LET key == makekey(project_id, job_id)
    IN  [set |-> PathStore_get_directory(path, f, key).set, h |-> Artifacts_init(project_id, job_id)]

----------------------------------------------------------------------------
(* The CI provider (a gitlab Project) and the archives it serves: the world *)
(* outside the cache, fixed for a run.  A project has one pipeline with the *)
(* test jobs J1 and J2 and the job P1, and is one of                        *)
(*   "packaged"  P1 is the package job, its archive holds                   *)
(*               out/agent-7.50.0.debug.zip                                 *)
(*   "nopkg"     no successful job of the pipeline has the package-job name *)
(*   "nozip"     P1 is the package job, its archive holds no *.debug.zip    *)

PackageJobName == W("windows_msi_and_bosh_zip_x64-a7")

ProjectId == Some(W("datadog-agent"))

J1 == W("J1")

J2 == W("J2")

P1 == W("P1")

Projects == {"packaged", "nopkg", "nozip"}

CIJobIds == {J1, J2, P1}

\* project.jobs.get(id): name, pipeline["id"] and the bytes of the artifacts archive
CIJob(project, id) ==
    CASE id = J1 -> [name |-> W("test-a"), pipeline |-> W("100"), archive |-> W("zip:J1")]
      [] id = J2 -> [name |-> W("test-b"), pipeline |-> W("100"), archive |-> W("zip:J2")]
      [] id = P1 -> [name |-> IF project = "nopkg" THEN W("lint") ELSE PackageJobName,
                     pipeline |-> W("100"),
                     archive |-> IF project = "nozip" THEN W("zip:msi") ELSE W("zip:P1")]

\* pipeline.jobs.list(scope='success'): the successful jobs, in the API's order
CIPipelineJobs(project, pipeline_id) ==
    CASE pipeline_id = W("100") -> <<J1, P1>>

\* the entries of a zip archive, by its bytes; bytes that are no zip have none
IsZip(b) == b \in {W("zip:J1"), W("zip:J2"), W("zip:P1"), W("zip:msi"), W("zip:dbg")}

ZipEntries(b) ==
    CASE b = W("zip:J1") -> << [name |-> <<W("dumps"), <<"crash", ".dmp">>>>, data |-> W("dmp1")] >>
      [] b = W("zip:J2") -> << [name |-> << <<"crash", ".dmp">> >>, data |-> W("dmp2")] >>
      [] b = W("zip:P1") -> << [name |-> <<W("out"), <<"agent-7.50.0", ".debug.zip">>>>, data |-> W("zip:dbg")],
                               [name |-> <<W("out"), <<"agent", ".msi">>>>, data |-> W("msi")] >>
      [] b = W("zip:msi") -> << [name |-> <<W("out"), <<"agent", ".msi">>>>, data |-> W("msi")] >>
      [] b = W("zip:dbg") -> << [name |-> <<W("bin"), <<"agent", ".exe.debug">>>>, data |-> W("sym-agent")],
                                [name |-> <<W("bin"), <<"agent", ".exe">>>>, data |-> W("exe")],
                                [name |-> <<W("bin"), W("sub"), <<"trace", ".exe.debug">>>>, data |-> W("sym-trace")] >>

\* the failure injected in a call: the place (at) and the statement there (how)
\* at which the provider, the archive or the filesystem raises
NoFault == [at |-> "", how |-> ""]

FaultAt(fault, at) == IF fault.at = at THEN fault.how ELSE ""

\* temporary files and directories (tempfile): fresh paths outside the cache
TempArtifacts == [abs |-> TRUE, parts |-> <<W("tmp"), W("artifacts-dir")>>]

TempDownload == [abs |-> TRUE, parts |-> <<W("tmp"), W("download-file")>>]

TempSymbols == [abs |-> TRUE, parts |-> <<W("tmp"), W("symbols-dir")>>]

\* one archive member written below dir (ZipFile.extract)
ExtractOne(f, dir, name, data) ==
    LET target == Join(dir, [abs |-> FALSE, parts |-> name])
        made   == mkdir(f, Parent(target))
    IN  IF made.err # "" THEN made ELSE write_bytes(made.fs, target, data)

RECURSIVE ExtractAll(_, _, _)
ExtractAll(f, dir, entries) ==
    IF entries = <<>> THEN [err |-> "", fs |-> f]
    ELSE LET one == ExtractOne(f, dir, Head(entries).name, Head(entries).data)
         IN  IF one.err # "" THEN one ELSE ExtractAll(one.fs, dir, Tail(entries))

----------------------------------------------------------------------------
(* Resolution logic.  Every operator returns a record with err ("" when it  *)
(* returns normally, else the exception raised), fs (the filesystem         *)
(* afterwards) and ci (the calls made to the CI provider).                  *)

\* a download whose temporary file is removed only when it returns normally
download_job_artifacts_no_finally(project, f, job_id, output_dir, fault) ==
    LET how     == FaultAt(fault, "dl")
        known   == job_id.set /\ job_id.val \in CIJobIds
        archive == CIJob(project, job_id.val).archive
        tmp     == write_bytes(f, TempDownload, <<>>).fs
        saved   == write_bytes(tmp, TempDownload, archive).fs
        unzip   == ExtractAll(saved, output_dir, ZipEntries(archive))
    IN  IF ~known \/ how = "jobs.get"
        THEN [err |-> "GitlabGetError", fs |-> f, ci |-> 1, dl |-> 0]
        ELSE IF how = "artifacts"
        THEN [err |-> "GitlabGetError", fs |-> tmp, ci |-> 2, dl |-> 0]
        ELSE IF ~IsZip(archive) \/ how = "extractall"
        THEN [err |-> "BadZipFile", fs |-> saved, ci |-> 2, dl |-> 1]
        ELSE [err |-> unzip.err,
              fs |-> IF unzip.err = "" THEN remove(unzip.fs, TempDownload) ELSE unzip.fs,
              ci |-> 2, dl |-> 1]

\* download_job_artifacts(project, job_id, output_dir); dl: archives downloaded
download_job_artifacts(project, f, job_id, output_dir, fault) ==
    LET how     == FaultAt(fault, "dl")
        known   == job_id.set /\ job_id.val \in CIJobIds
        archive == CIJob(project, job_id.val).archive
        tmp     == write_bytes(f, TempDownload, <<>>).fs                  \* mkstemp
        saved   == write_bytes(tmp, TempDownload, archive).fs             \* job.artifacts(...)
        unzip   == ExtractAll(saved, output_dir, ZipEntries(archive))     \* extractall
    IN  IF ~known \/ how = "jobs.get"
        THEN [err |-> "GitlabGetError", fs |-> f, ci |-> 1, dl |-> 0]
        ELSE IF how = "artifacts"
        THEN [err |-> "GitlabGetError", fs |-> remove(tmp, TempDownload), ci |-> 2, dl |-> 0]
        ELSE IF ~IsZip(archive) \/ how = "extractall"
        THEN [err |-> "BadZipFile", fs |-> remove(saved, TempDownload), ci |-> 2, dl |-> 1]
        ELSE [err |-> unzip.err, fs |-> remove(unzip.fs, TempDownload), ci |-> 2, dl |-> 1]

\* what an interrupted copy of directory src had reached: the files named by cut
CopyDone(f, src, interrupted, cut) ==
    IF interrupted
    THEN {Join(src, [abs |-> FALSE, parts |-> rel]) : rel \in cut}
    ELSE FilesUnder(f, src) \cup DirsUnder(f, src)

\* add_gitlab_job_artifacts_to_artifact_store(artifact_store, project, job_id)
add_gitlab_job_artifacts_to_artifact_store(path, f, project, job_id, fault, cut) ==
    LET temp_dir == mkdir(f, TempArtifacts).fs                            \* TemporaryDirectory()
        how      == FaultAt(fault, "add")
    IN  Then(download_job_artifacts(project, temp_dir, job_id, TempArtifacts, fault), LAMBDA got :
        IF got.err # ""
        THEN [err |-> got.err, fs |-> remove(got.fs, TempArtifacts), ci |-> got.ci, dl |-> got.dl,
              h |-> Artifacts_init(ProjectId, job_id)]
        ELSE Then(ArtifactStore_add(path, got.fs, ProjectId, Some(Format(job_id)),
                                    SomePath(TempArtifacts),
                                    IF how = "mkdir" THEN how ELSE "",
                                    CopyDone(got.fs, TempArtifacts, how = "copy", cut)), LAMBDA added :
             [err |-> added.err, fs |-> remove(added.fs, TempArtifacts), ci |-> got.ci,
              dl |-> got.dl, h |-> added.h]))

\* a fetch that never looks the pair up in the store first
get_or_fetch_artifacts_refetch(path, f, project, job_id, fault, cut) ==
    Then(add_gitlab_job_artifacts_to_artifact_store(path, f, project, job_id, fault, cut), LAMBDA added :
        [err |-> added.err, fs |-> added.fs, ci |-> added.ci, dl |-> added.dl, h |-> added.h,
         fetched |-> added.err = ""])

\* get_or_fetch_artifacts(artifact_store, project, job_id); fetched: the
\* artifacts were downloaded and registered by this call
get_or_fetch_artifacts(path, f, project, job_id, fault, cut) ==
    LET artifacts == ArtifactStore_get(path, f, ProjectId, job_id)
    IN  IF artifacts.set
        THEN [err |-> "", fs |-> f, ci |-> 0, dl |-> 0, h |-> artifacts.h, fetched |-> FALSE]
        ELSE Then(add_gitlab_job_artifacts_to_artifact_store(path, f, project, job_id, fault, cut),
                  LAMBDA added :
             [err |-> added.err, fs |-> added.fs, ci |-> added.ci, dl |-> added.dl, h |-> added.h,
              fetched |-> added.err = ""])

\* get_package_job_id(project, job_id): [err, ci, ret]; ret is None when the
\* loop over the pipeline's successful jobs ends without a match
get_package_job_id(project, job_id, fault) ==
    LET how     == FaultAt(fault, "pkg")
        known   == job_id.set /\ job_id.val \in CIJobIds
        jobs    == CIPipelineJobs(project, CIJob(project, job_id.val).pipeline)
        matches == SelectSeq(jobs, LAMBDA j : CIJob(project, j).name = PackageJobName)
    IN  IF ~known \/ how = "jobs.get" THEN [err |-> "GitlabGetError", ci |-> 1, ret |-> None]
        ELSE IF how = "pipelines.get" THEN [err |-> "GitlabGetError", ci |-> 2, ret |-> None]
        ELSE IF how = "jobs.list" THEN [err |-> "GitlabListError", ci |-> 3, ret |-> None]
        ELSE [err |-> "", ci |-> 3, ret |-> IF matches = <<>> THEN None ELSE Some(Head(matches))]

\* glob.glob(f"{output_dir}/**/<pattern>", recursive=True) for a pattern
\* "*<suffix>": the entries below output_dir whose name ends in the suffix
\* after a non-empty stem; an output_dir of None is the relative directory "None"
glob_suffix(f, output_dir, suffix) ==
    LET dir == IF output_dir.set THEN PathOf(output_dir) ELSE ParsePath(<<Format(None)>>)
    IN  {q \in FilesUnder(f, dir) \cup DirsUnder(f, dir) :
            LET name == q.parts[Len(q.parts)] IN endswith(name, suffix) /\ Len(name) > 1}

find_debug_zip(f, output_dir) == glob_suffix(f, output_dir, ".debug.zip")

\* extract_agent_symbols(zip_path, output_dir): the members whose name ends in
\* .exe.debug, each under its base name
extract_agent_symbols(f, zip_path, output_dir, fault) ==
    LET members == SelectSeq(ZipEntries(f.files[zip_path]),
                             LAMBDA info : endswith(info.name[Len(info.name)], ".exe.debug"))
        flat    == [i \in 1..Len(members) |->
                      [name |-> <<members[i].name[Len(members[i].name)]>>, data |-> members[i].data]]
    IN  IF ~IsFile(f, zip_path) THEN [err |-> "OSError", fs |-> f]
        ELSE IF ~IsZip(f.files[zip_path]) \/ fault = "extract" THEN [err |-> "BadZipFile", fs |-> f]
        ELSE ExtractAll(f, output_dir, flat)


\* CrashAnalyzerCLI.__init__: the roots of the two stores below env
SymbolRoot(e) == Join(e, ParsePath(<<W("symbols")>>))

ArtifactRoot(e) == Join(e, ParsePath(<<W("artifacts")>>))

\* a resolution that extracts and adds the symbols whether or not the Symbol
\* Store has them
resolve_symbols_rewrite(e, f, version, debug_zip, fault, cut) ==
    LET syms    == SymbolStore_get(SymbolRoot(e), f, version)
        tmp_dir == mkdir(f, TempSymbols).fs
        how     == FaultAt(fault, "sym")
        hit     == IF syms.set THEN "hit" ELSE "miss"
    IN  IF ~debug_zip.set
        THEN [err |-> "UnboundLocalError", fs |-> f, ret |-> NoPath, hit |-> hit]
        ELSE Then(extract_agent_symbols(tmp_dir, PathOf(debug_zip), TempSymbols,
                                        FaultAt(fault, "extract")), LAMBDA out :
             IF out.err # ""
             THEN [err |-> out.err, fs |-> remove(out.fs, TempSymbols), ret |-> NoPath,
                   hit |-> hit]
             ELSE Then(SymbolStore_add(SymbolRoot(e), out.fs, version, TempSymbols,
                                       IF how = "mkdir" THEN how ELSE "",
                                       CopyDone(out.fs, TempSymbols, how = "copy", cut)), LAMBDA added :
                  [err |-> added.err, fs |-> remove(added.fs, TempSymbols), ret |-> added.ret,
                   hit |-> hit]))

\* get_symbols_for_job_id, lines 276-282: the symbols of a version.  debug_zip
\* is the archive found on the slow path, unset when no statement bound it
resolve_symbols(e, f, version, debug_zip, fault, cut) ==
    LET syms    == SymbolStore_get(SymbolRoot(e), f, version)
        tmp_dir == mkdir(f, TempSymbols).fs                                \* TemporaryDirectory()
        how     == FaultAt(fault, "sym")
    IN  IF syms.set THEN [err |-> "", fs |-> f, ret |-> syms, hit |-> "hit"]
        ELSE IF ~debug_zip.set
        THEN [err |-> "UnboundLocalError", fs |-> f, ret |-> NoPath, hit |-> "miss"]
        ELSE Then(extract_agent_symbols(tmp_dir, PathOf(debug_zip), TempSymbols,
                                        FaultAt(fault, "extract")), LAMBDA out :
             IF out.err # ""
             THEN [err |-> out.err, fs |-> remove(out.fs, TempSymbols), ret |-> NoPath,
                   hit |-> "miss"]
             ELSE Then(SymbolStore_add(SymbolRoot(e), out.fs, version, TempSymbols,
                                       IF how = "mkdir" THEN how ELSE "",
                                       CopyDone(out.fs, TempSymbols, how = "copy", cut)), LAMBDA added :
                  [err |-> added.err, fs |-> remove(added.fs, TempSymbols), ret |-> added.ret,
                   hit |-> "miss"]))

\* a result of get_symbols_for_job_id before anything was done
NoResult ==
    [err |-> "", fs |-> EmptyFS, ci |-> 0, dl |-> 0, ret |-> NoPath, branch |-> "",
     package |-> None, notfound |-> FALSE, looked |-> FALSE, fetchci |-> 0, got |-> FALSE,
     fetched |-> FALSE, version |-> None, symhit |-> ""]

\* get_symbols_for_job_id, lines 268-282: the body of the loop for the debug
\* archive found, then the symbols of its version.  sofar is the result up to
\* line 267, package the handle of the package job, artifact the result of the
\* lookup of line 260
record_version(e, sofar, package, artifact, job_id, debug_zip, fault, cut) ==
    LET path    == ArtifactRoot(e)
        version == removesuffix(debug_zip.parts[Len(debug_zip.parts)], ".debug.zip")
    IN  Then(set_text_property(path, sofar.fs, package, "version", version,
                               FaultAt(fault, "pkgver")), LAMBDA set1 :
        IF set1.err # "" THEN [sofar EXCEPT !.err = set1.err, !.fs = set1.fs]
        ELSE Then(set_text_property(path, set1.fs,
                                    IF artifact.set THEN artifact.h
                                    ELSE ArtifactStore_add(path, set1.fs, ProjectId, job_id,
                                                           NoPath, "", {}).h,
                                    "version", version, FaultAt(fault, "jobver")), LAMBDA set2 :
             IF set2.err # "" THEN [sofar EXCEPT !.err = set2.err, !.fs = set2.fs]
             ELSE Then(resolve_symbols(e, set2.fs, version, SomePath(debug_zip), fault, cut),
                       LAMBDA syms :
                  [sofar EXCEPT !.err = syms.err, !.fs = syms.fs, !.ret = syms.ret,
                                !.version = Some(version), !.symhit = syms.hit])))

\* a slow path that returns nothing, instead of failing, when the package
\* job's artifacts hold no debug archive
slow_path_silent(e, f, project, job_id, artifact, fault, cut) ==
    LET path == ArtifactRoot(e)
        base == [NoResult EXCEPT !.fs = f, !.branch = "slow"]
    IN  Then(get_package_job_id(project, job_id, fault), LAMBDA pkg :
        IF pkg.err # "" THEN [base EXCEPT !.err = pkg.err, !.ci = pkg.ci]
        ELSE Then(get_or_fetch_artifacts(path, f, project, pkg.ret, fault, cut), LAMBDA package :
             LET sofar == [base EXCEPT !.ci = pkg.ci + package.ci, !.dl = package.dl,
                                       !.fs = package.fs, !.package = pkg.ret,
                                       !.notfound = ~pkg.ret.set, !.looked = TRUE,
                                       !.fetchci = package.ci, !.got = package.err = "",
                                       !.fetched = package.fetched]
                  zips  == find_debug_zip(package.fs, Artifacts_get(path, package.fs, package.h))
             IN  IF package.err # "" THEN [sofar EXCEPT !.err = package.err]
                 ELSE IF zips = {} THEN sofar
                 ELSE record_version(e, sofar, package.h, artifact, job_id,
                                     CHOOSE z \in zips : TRUE, fault, cut)))

\* get_symbols_for_job_id, lines 264-267: the slow path, from the package job
\* to the debug archive in its artifacts.  artifact is the result of the
\* lookup of line 260 (its handle as left by the read of line 261)
slow_path(e, f, project, job_id, artifact, fault, cut) ==
    LET path == ArtifactRoot(e)
        base == [NoResult EXCEPT !.fs = f, !.branch = "slow"]
    IN  Then(get_package_job_id(project, job_id, fault), LAMBDA pkg :
        IF pkg.err # "" THEN [base EXCEPT !.err = pkg.err, !.ci = pkg.ci]
        ELSE Then(get_or_fetch_artifacts(path, f, project, pkg.ret, fault, cut), LAMBDA package :
             LET sofar == [base EXCEPT !.ci = pkg.ci + package.ci, !.dl = package.dl,
                                       !.fs = package.fs, !.package = pkg.ret,
                                       !.notfound = ~pkg.ret.set, !.looked = TRUE,
                                       !.fetchci = package.ci, !.got = package.err = "",
                                       !.fetched = package.fetched]
                  zips  == find_debug_zip(package.fs, Artifacts_get(path, package.fs, package.h))
             IN  IF package.err # "" THEN [sofar EXCEPT !.err = package.err]
                 ELSE IF zips = {} THEN [sofar EXCEPT !.err = "UnboundLocalError"]
                 ELSE record_version(e, sofar, package.h, artifact, job_id,
                                     CHOOSE z \in zips : TRUE, fault, cut)))

\* get_symbols_for_job_id(cli, job_id):
\*   [err, fs, ci, dl, ret, branch, package, notfound, looked, fetchci, got, fetched,
\*    version, symhit]
\*   branch: "fast" when the version came from the job's handle
\*   package: the package job id get_package_job_id returned, notfound: it
\*   returned None; looked: get_or_fetch_artifacts was called for the package
\*   job, fetchci: the provider calls it made, got: it returned, fetched: it
\*   downloaded and registered the artifacts; version: the version whose
\*   symbols were looked up (line 276), symhit: "hit" when the Symbol Store had
\*   them, "miss" when it had not
get_symbols_for_job_id(e, f, project, job_id, fault, cut) ==
    LET artifact == ArtifactStore_get(ArtifactRoot(e), f, ProjectId, job_id)
        version  == get_text_property(ArtifactRoot(e), f, artifact.h, "version")
        fast     == [NoResult EXCEPT !.fs = f, !.branch = "fast"]
    IN  IF artifact.set /\ version.err # "" THEN [fast EXCEPT !.err = version.err]
        ELSE IF artifact.set /\ Truthy(version.ret)
        THEN Then(resolve_symbols(e, f, version.ret.val, NoPath, fault, cut), LAMBDA syms :
                 [fast EXCEPT !.err = syms.err, !.fs = syms.fs, !.ret = syms.ret,
                              !.version = Some(version.ret.val), !.symhit = syms.hit])
        ELSE slow_path(e, f, project, job_id, [set |-> artifact.set, h |-> version.h], fault, cut)

----------------------------------------------------------------------------
(* State.                                                                   *)
(*   env             the environment directory of the CrashAnalyzerCLI      *)
(*   active_project  the CI project selected                                *)
(*   fs              the filesystem                                         *)
(*   handles         the Artifacts objects the caller holds, in creation    *)
(*                   order                                                  *)
(*   last            the last call, what it found and what it returned      *)
(* History, read by the guards and the properties only:                     *)
(*   created   the (project, job) each handle was constructed with          *)
(*   addedPairs  the (project, job) pairs ArtifactStore.add was called for  *)
(*   loaded    the (handle, field) whose getter returned a value read from  *)
(*             the store                                                    *)
(*   nsets     the number of setter calls                                   *)
(*   nfaults   the number of calls in which a failure was injected          *)
(*   fetches   per job, the downloads that were registered in the store     *)
(*   okFetch   the jobs for which get_or_fetch_artifacts has returned       *)
(*   resolved  per job, the path returned by its first slow-path resolution *)
(*             made after get_or_fetch_artifacts returned for it            *)

\* the handles a caller holds at a time
MaxHandles == 2

\* the setter calls made in a behaviour
MaxSets == 2

\* the calls of a behaviour in which the provider or the filesystem fails
MaxFaults == 1

\* the registered downloads counted per job
MaxFetches == 2

\* job ids a caller passes
JobArgs == {J1, P1}

AllJobs == CIJobIds \cup {Format(None)}

Envs == {[abs |-> TRUE, parts |-> <<W("home"), W(".agent-crash-analyzer")>>],
         [abs |-> FALSE, parts |-> <<W("crash-env")>>]}

\* a local directory of artifacts a caller may add
LocalSrc == [abs |-> TRUE, parts |-> <<W("data"), W("job-output")>>]

InitFS ==
    [dirs  |-> Ancestors(Parent(TempArtifacts)) \cup Ancestors(LocalSrc),
     files |-> (Join(LocalSrc, ParsePath(<< <<"core", ".dmp">> >>)) :> W("dmp0"))]

\* the failures of a fetch, and of a resolution
FetchFaults ==
    {[at |-> "dl", how |-> x] : x \in {"jobs.get", "artifacts", "extractall"}}
    \cup {[at |-> "add", how |-> x] : x \in {"mkdir", "copy"}}

ResolveFaults ==
    FetchFaults
    \cup {[at |-> "pkg", how |-> x] : x \in {"jobs.get", "pipelines.get", "jobs.list"}}
    \cup {[at |-> "pkgver", how |-> x] : x \in {"mkdir", "open", "write"}}
    \cup {[at |-> "jobver", how |-> x] : x \in {"mkdir", "open", "write"}}
    \cup {[at |-> "extract", how |-> "extract"]}
    \cup {[at |-> "sym", how |-> x] : x \in {"mkdir", "copy"}}

\* the failures that may be injected now
Allowed(faults) == {NoFault} \cup (IF nfaults < MaxFaults THEN faults ELSE {})

\* the files an interrupted copy may have reached, relative to its source
CutsOf(fault) ==
    IF fault.how # "copy" THEN {{}}
    ELSE IF fault.at = "add"
    THEN {{}, {<<W("out"), <<"agent-7.50.0", ".debug.zip">>>>}, {<<W("out"), <<"agent", ".msi">>>>}}
    ELSE {{}, {<< <<"agent", ".exe.debug">> >>}}

Injected(fault) == IF fault = NoFault THEN 0 ELSE 1

\* an injected failure is one that was reached: the call raised
Fired(fault, err) == fault = NoFault \/ err # ""

\* the content of the entry <key()>/<attr>.txt of handle h, if there is one
Stored(f, e, h, attr) ==
    LET file == Join(ArtifactRoot(e), ParsePath(TextKey(h, attr)))
    IN  IF IsFile(f, file) THEN Some(f.files[file]) ELSE None

Idle == [op |-> "init", project |-> <<>>, job |-> None, h |-> 0, attr |-> "", value |-> <<>>,
         err |-> "", ci |-> 0, ret |-> None, path |-> NoPath, branch |-> "", package |-> None,
         notfound |-> FALSE, looked |-> FALSE, fetchci |-> 0, fetched |-> FALSE,
         again |-> FALSE, pkgAgain |-> FALSE, versionSet |-> FALSE, changed |-> FALSE,
         before |-> None, key |-> <<>>, src |-> NoPath, old |-> EmptyFS, fault |-> NoFault,
         symhit |-> "", symsChanged |-> FALSE]

Init ==
    /\ env \in Envs
    /\ active_project \in Projects
    /\ fs = InitFS
    /\ handles = <<>>
    /\ created = <<>>
    /\ addedPairs = {}
    /\ loaded = {}
    /\ written = {}
    /\ nsets = 0
    /\ nfaults = 0
    /\ fetches = [j \in AllJobs |-> 0]
    /\ okFetch = {}
    /\ resolved = [j \in JobArgs |-> NoPath]
    /\ last = Idle

\* a caller runs get_or_fetch_artifacts(cli.artifact_store, cli.active_project, j)
GetOrFetch ==
    \E j \in JobArgs, fault \in Allowed(FetchFaults) : \E cut \in CutsOf(fault) :
        \E r \in {get_or_fetch_artifacts(ArtifactRoot(env), fs, active_project, Some(j), fault, cut)} :
            /\ Fired(fault, r.err)
            /\ fetches[j] < MaxFetches
            /\ fs' = r.fs
            /\ nfaults' = nfaults + Injected(fault)
            /\ fetches' = [fetches EXCEPT ![j] = @ + (IF r.fetched THEN 1 ELSE 0)]
            /\ okFetch' = IF r.err = "" THEN okFetch \cup {j} ELSE okFetch
            /\ last' = [Idle EXCEPT !.op = "get_or_fetch_artifacts", !.project = ProjectId.val,
                                    !.job = Some(j), !.err = r.err,
                                    !.ci = r.ci, !.fetchci = r.ci, !.fetched = r.fetched,
                                    !.path = Artifacts_get(ArtifactRoot(env), r.fs, r.h),
                                    !.again = j \in okFetch, !.changed = r.fs # fs,
                                    !.fault = fault]
            /\ UNCHANGED <<written, env, active_project, handles, created, addedPairs, loaded, nsets, resolved>>

\* a caller runs get_symbols_for_job_id(cli, j)
GetSymbols ==
    \E j \in JobArgs, fault \in Allowed(ResolveFaults) : \E cut \in CutsOf(fault) :
        \E r \in {get_symbols_for_job_id(env, fs, active_project, Some(j), fault, cut)} :
        LET p == Format(r.package)
            v == Stored(fs, env, Artifacts_init(ProjectId, Some(j)), "version")
        IN  /\ Fired(fault, r.err)
            /\ fetches[p] < MaxFetches
            /\ fs' = r.fs
            /\ nfaults' = nfaults + Injected(fault)
            /\ fetches' = [fetches EXCEPT ![p] = @ + (IF r.fetched THEN 1 ELSE 0)]
            /\ okFetch' = IF r.got THEN okFetch \cup {p} ELSE okFetch
            /\ resolved' = IF /\ r.err = "" /\ r.branch = "slow"
                              /\ j \in okFetch /\ ~resolved[j].set
                           THEN [resolved EXCEPT ![j] = r.ret] ELSE resolved
            /\ last' = [Idle EXCEPT !.op = "get_symbols_for_job_id", !.project = ProjectId.val,
                                    !.job = Some(j), !.err = r.err,
                                    !.ci = r.ci, !.path = r.ret, !.branch = r.branch,
                                    !.package = r.package, !.notfound = r.notfound,
                                    !.looked = r.looked, !.fetchci = r.fetchci,
                                    !.fetched = r.fetched, !.again = resolved[j].set,
                                    !.pkgAgain = r.looked /\ p \in okFetch,
                                    !.versionSet = v.set /\ strip(decode(v.val)) # <<>>,
                                    !.changed = r.fs # fs, !.fault = fault,
                                    !.value = r.version.val, !.symhit = r.symhit,
                                    !.symsChanged = SubTree(r.fs, SymbolRoot(env))
                                                    # SubTree(fs, SymbolRoot(env))]
            /\ UNCHANGED <<written, env, active_project, handles, created, addedPairs, loaded, nsets>>

Next == GetOrFetch \/ GetSymbols

Spec == Init /\ [][Next]_vars

----------------------------------------------------------------------------
(* The Artifact Store used directly: a caller creates handles with          *)
(* ArtifactStore.add / get and calls their methods.  A call that changes    *)
(* neither the filesystem nor a handle (get() of a handle, a getter that    *)
(* finds its value cached or nothing to load, ArtifactStore.get returning   *)
(* None) leaves the state as it is; what such a call returns in a state is  *)
(* the value of its operator there.                                         *)

\* the project id callers create handles for (lines 135, 258, 286), and the
\* project ids the store is asked about
ApiProjects == {ProjectId.val}

AskedProjects == {ProjectId.val, W("other")}

ApiJobs == {J1}

\* the values a caller gives a setter: a word, a text with trailing whitespace
SetterValues == {W("other"), <<"7.50.0", Blank>>}

Attrs == {"version", "pipeline", "project"}

SetterFaults == {"", "mkdir", "open", "write"}

\* artifact_store.add(p, j) and artifact_store.add(p, j, LocalSrc)
StoreAdd ==
    \E p \in ApiProjects, j \in ApiJobs, src \in {NoPath, SomePath(LocalSrc)} :
        \E r \in {ArtifactStore_add(ArtifactRoot(env), fs, Some(p), Some(j), src, "",
                                      CopyDone(fs, LocalSrc, FALSE, {}))} :
            /\ Len(handles) < MaxHandles
            /\ fs' = r.fs
            /\ addedPairs' = addedPairs \cup {<<p, j>>}
            /\ handles' = IF r.err = "" THEN Append(handles, r.h) ELSE handles
            /\ created' = IF r.err = "" THEN Append(created, <<p, j>>) ELSE created
            /\ last' = [Idle EXCEPT !.op = "ArtifactStore.add", !.project = p, !.job = Some(j),
                                    !.err = r.err, !.h = Len(handles'), !.changed = r.fs # fs]
            /\ UNCHANGED <<written, env, active_project, loaded, nsets, nfaults, fetches, okFetch, resolved>>

\* artifact_store.get(p, j) returning a handle, which the caller keeps
StoreGet ==
    \E p \in ApiProjects, j \in ApiJobs :
        LET r == ArtifactStore_get(ArtifactRoot(env), fs, Some(p), Some(j))
        IN  /\ Len(handles) < MaxHandles
            /\ r.set
            /\ handles' = Append(handles, r.h)
            /\ created' = Append(created, <<p, j>>)
            /\ last' = [Idle EXCEPT !.op = "ArtifactStore.get", !.project = p, !.job = Some(j),
                                    !.h = Len(handles'),
                                    !.path = Artifacts_get(ArtifactRoot(env), fs, r.h)]
            /\ UNCHANGED <<written, env, active_project, fs, addedPairs, loaded, nsets, nfaults, fetches,
                           okFetch, resolved>>

\* handle.add(LocalSrc)
HandleAdd ==
    \E i \in 1..Len(handles) :
        LET r == Artifacts_add(ArtifactRoot(env), fs, handles[i], LocalSrc, "",
                               CopyDone(fs, LocalSrc, FALSE, {}))
        IN  /\ fs' = r.fs
            /\ last' = [Idle EXCEPT !.op = "Artifacts.add", !.h = i, !.err = r.err,
                                    !.changed = r.fs # fs]
            /\ UNCHANGED <<written, env, active_project, handles, created, addedPairs, loaded, nsets,
                           nfaults, fetches, okFetch, resolved>>

\* handle.version / handle.pipeline / handle.project loading its value from the store
Getter ==
    \E i \in 1..Len(handles), attr \in Attrs :
        LET r == get_text_property(ArtifactRoot(env), fs, handles[i], attr)
        IN  /\ r.h # handles[i]
            /\ handles' = [handles EXCEPT ![i] = r.h]
            /\ loaded' = IF r.read /\ r.ret.set THEN loaded \cup {<<i, attr>>} ELSE loaded
            /\ last' = [Idle EXCEPT !.op = "getter", !.h = i, !.attr = attr, !.err = r.err,
                                    !.ret = r.ret, !.before = handles[i][attr]]
            /\ UNCHANGED <<written, env, active_project, fs, created, addedPairs, nsets, nfaults, fetches,
                           okFetch, resolved>>

\* handle.version = value / handle.pipeline = value / handle.project = value
Setter ==
    \E i \in 1..Len(handles), attr \in Attrs, value \in SetterValues, fault \in SetterFaults :
        LET r == set_text_property(ArtifactRoot(env), fs, handles[i], attr, value, fault)
        IN  /\ nsets < MaxSets
            /\ fault = "" \/ (nfaults < MaxFaults /\ r.err # "")
            /\ nsets' = nsets + 1
            /\ nfaults' = nfaults + (IF fault = "" THEN 0 ELSE 1)
            /\ fs' = r.fs
            /\ handles' = [handles EXCEPT ![i] = r.h]
            /\ last' = [Idle EXCEPT !.op = "setter", !.h = i, !.attr = attr, !.value = value,
                                    !.err = r.err, !.before = handles[i][attr],
                                    !.path = SomePath(Join(ArtifactRoot(env),
                                                           ParsePath(TextKey(handles[i], attr)))),
                                    !.changed = r.fs # fs]
            /\ UNCHANGED <<written, env, active_project, created, addedPairs, loaded, fetches, okFetch,
                           resolved>>

InitApi == Init /\ active_project = "packaged" /\ env.abs

NextApi == StoreAdd \/ StoreGet \/ HandleAdd \/ Getter \/ Setter

SpecApi == InitApi /\ [][NextApi]_vars

(* One handle at a time: artifact_store.add creates it and its methods are  *)
(* called in any order; when the task ends the handle is gone and the cache *)
(* directory stays for the next task.                                       *)
Create == Len(handles) = 0 /\ StoreAdd

\* the task returns; get_cli() of the next one opens the same environment
Restart ==
    /\ Len(handles) > 0
    /\ handles' = <<>>
    /\ created' = <<>>
    /\ loaded' = {}
    /\ last' = [Idle EXCEPT !.op = "restart"]
    /\ UNCHANGED <<written, env, active_project, fs, addedPairs, nsets, nfaults, fetches, okFetch, resolved>>

NextHandle == Create \/ HandleAdd \/ Getter \/ Setter \/ Restart

SpecHandle == InitApi /\ [][NextHandle]_vars

----------------------------------------------------------------------------
(* The stores used directly: PathStore.add / get / add_directory on the     *)
(* artifact store's PathStore, SymbolStore.add / get on the symbol store    *)
(* (get_debug_symbols calls cli.symbol_store.add(version, tmp_dir)).        *)

KeyA == <<W("a")>>

KeyAB == <<W("a"), W("b")>>

KeyABF == <<W("a"), W("b"), W("f")>>

KeyAC == <<W("a"), W("c")>>

\* keys of blobs; each of KeyA, KeyAB is a path prefix of another key
StoreKeys == {KeyA, KeyAB, KeyABF, KeyAC}

\* keys of directories
DirKeys == {KeyA, KeyAB}

\* blobs, the empty one included
Blobs == {<<>>, W("x"), W("y")}

\* a source directory holding the directory b with the file f in it
SrcTree == [abs |-> TRUE, parts |-> <<W("data"), W("tree")>>]

\* a source directory holding the file b
SrcFlat == [abs |-> TRUE, parts |-> <<W("data"), W("flat")>>]

Sources == {SrcTree, SrcFlat}

Versions == {W("7.50.0"), W("7.51.0")}

StoreFS ==
    [dirs  |-> InitFS.dirs \cup Ancestors(Join(SrcTree, ParsePath(<<W("b")>>)))
                           \cup Ancestors(SrcFlat),
     files |-> (Join(SrcTree, ParsePath(<<W("b"), W("f")>>)) :> W("tree-b-f"))
               @@ (Join(SrcFlat, ParsePath(<<W("b")>>)) :> W("flat-b"))
               @@ InitFS.files]

\* the whole of a source: a copy that is not interrupted
Whole(f, src) == FilesUnder(f, src) \cup DirsUnder(f, src)

\* path_store.add(k, b)
PathAdd ==
    \E k \in StoreKeys, b \in Blobs :
        \E r \in {PathStore_add(ArtifactRoot(env), fs, k, b, "")} :
            /\ fs' = r.fs
            /\ written' = IF r.err = "" THEN written \cup {<<"add", k>>} ELSE written
            /\ last' = [Idle EXCEPT !.op = "PathStore.add", !.key = k, !.value = b,
                                    !.err = r.err, !.old = fs]
            /\ UNCHANGED <<env, active_project, handles, created, addedPairs, loaded, nsets,
                           nfaults, fetches, okFetch, resolved>>

\* path_store.get(k)
PathGet ==
    \E k \in StoreKeys :
        \E r \in {PathStore_get(ArtifactRoot(env), fs, k)} :
            /\ last' = [Idle EXCEPT !.op = "PathStore.get", !.key = k, !.err = r.err,
                                    !.ret = r.data]
            /\ UNCHANGED <<written, env, active_project, fs, handles, created, addedPairs,
                           loaded, nsets, nfaults, fetches, okFetch, resolved>>

\* path_store.add_directory(k, src)
PathAddDirectory ==
    \E k \in DirKeys, src \in Sources :
        \E r \in {PathStore_add_directory(ArtifactRoot(env), fs, k, src, "", Whole(fs, src))} :
            /\ fs' = r.fs
            /\ written' = IF r.err = "" THEN written \cup {<<"add_directory", k>>} ELSE written
            /\ last' = [Idle EXCEPT !.op = "PathStore.add_directory", !.key = k,
                                    !.src = SomePath(src), !.err = r.err, !.old = fs]
            /\ UNCHANGED <<env, active_project, handles, created, addedPairs, loaded, nsets,
                           nfaults, fetches, okFetch, resolved>>

\* symbol_store.add(v, src)
SymAdd ==
    \E v \in Versions, src \in Sources :
        \E r \in {SymbolStore_add(SymbolRoot(env), fs, v, src, "", Whole(fs, src))} :
            /\ fs' = r.fs
            /\ written' = IF r.err = "" THEN written \cup {<<"symbols", <<v>>>>} ELSE written
            /\ last' = [Idle EXCEPT !.op = "SymbolStore.add", !.key = <<v>>,
                                    !.src = SomePath(src), !.err = r.err, !.path = r.ret,
                                    !.old = fs]
            /\ UNCHANGED <<env, active_project, handles, created, addedPairs, loaded, nsets,
                           nfaults, fetches, okFetch, resolved>>

\* symbol_store.get(v)
SymGet ==
    \E v \in Versions :
        /\ last' = [Idle EXCEPT !.op = "SymbolStore.get", !.key = <<v>>,
                                !.path = SymbolStore_get(SymbolRoot(env), fs, v)]
        /\ UNCHANGED <<written, env, active_project, fs, handles, created, addedPairs,
                       loaded, nsets, nfaults, fetches, okFetch, resolved>>

InitStore ==
    /\ env \in Envs
    /\ active_project = "packaged"
    /\ fs = StoreFS
    /\ handles = <<>>
    /\ created = <<>>
    /\ addedPairs = {}
    /\ loaded = {}
    /\ written = {}
    /\ nsets = 0
    /\ nfaults = 0
    /\ fetches = [j \in AllJobs |-> 0]
    /\ okFetch = {}
    /\ resolved = [j \in JobArgs |-> NoPath]
    /\ last = Idle

NextStore == PathAdd \/ PathGet \/ PathAddDirectory

SpecStore == InitStore /\ [][NextStore]_vars

NextSymbols == SymAdd \/ SymGet

SpecSymbols == InitStore /\ [][NextSymbols]_vars

----------------------------------------------------------------------------
(* Properties of fetch-or-reuse and of symbol resolution, under Spec.       *)

C2_FastPath ==
    (last.op = "get_symbols_for_job_id" /\ last.versionSet)
        => (last.ci = 0 /\ last.branch = "fast" /\ last.package = None)

\* a fast-path resolution that found no symbols of the version in the Symbol Store
C2_Witness ==
    /\ last.op = "get_symbols_for_job_id"
    /\ last.versionSet
    /\ last.ci = 0
    /\ last.err = "UnboundLocalError"

\* C3: with no failure anywhere, a resolution for job J made after
\* get_or_fetch_artifacts(J) and a successful slow-path resolution for J makes
\* no call to the CI provider and returns the path the first one returned.
C3_RepeatResolution ==
    (last.op = "get_symbols_for_job_id" /\ last.again /\ nfaults = 0)
        => (last.err = "" /\ last.ci = 0 /\ last.path = resolved[last.job.val])

\* C4: ArtifactStore.get(project, job) returns a handle only if the handle's
\* raw-artifact subtree <project>/<job>/artifacts exists.
C4_GetImpliesArtifacts ==
    \A j \in JobArgs :
        LET r == ArtifactStore_get(ArtifactRoot(env), fs, ProjectId, Some(j))
        IN  r.set => Artifacts_get(ArtifactRoot(env), fs, r.h).set

\* C6: when no successful job of the pipeline has the package-job name, the
\* resolution fails without going on to fetch-or-reuse: it looks up and
\* downloads nothing for a package job and writes nothing to the cache.
C6_PackageJobNotFound ==
    (last.op = "get_symbols_for_job_id" /\ last.notfound)
        => (last.err # "" /\ ~last.looked /\ last.fetchci = 0 /\ ~last.changed)

----------------------------------------------------------------------------
(* Properties of the Artifact Store and of its handles, under SpecHandle    *)
(* and SpecApi.                                                             *)

\* the trimmed text of the entry <key()>/<attr>.txt of handle h, None without entry
StoredText(h, attr) ==
    LET entry == Stored(fs, env, h, attr)
    IN  IF entry.set THEN Some(strip(decode(entry.val))) ELSE None

\* C5: ArtifactStore.get(project, job) returns absent in every state in which
\* ArtifactStore.add was never called for that pair.
C5_AbsentUntilAdded ==
    \A p \in AskedProjects, j \in ApiJobs :
        <<p, j>> \notin addedPairs
            => ~ArtifactStore_get(ArtifactRoot(env), fs, Some(p), Some(j)).set

\* C7: key() of a handle is "<project_id>/<job_id>" for the pair the handle
\* was created with, whatever was called on the handle since.
C7_KeyStable ==
    \A i \in 1..Len(handles) :
        Artifacts_key(handles[i]) = makekey(Some(created[i][1]), Some(created[i][2]))

\* C8: the getter of a freshly created handle returns absent when the entry
\* <key()>/<field>.txt does not exist and its trimmed text when it does, for
\* each of version, pipeline and project.
C8_LazyLoad ==
    \A p \in AskedProjects, j \in ApiJobs, attr \in Attrs :
        LET fresh == Artifacts_init(Some(p), Some(j))
        IN  get_text_property(ArtifactRoot(env), fs, fresh, attr).ret = StoredText(fresh, attr)

\* C9: once a getter of a handle has returned a value read from the store, a
\* getter call on that handle returns the trimmed text now stored in
\* <key()>/<field>.txt.
C9_NoDivergence ==
    \A i \in 1..Len(handles), attr \in Attrs :
        <<i, attr>> \in loaded
            => get_text_property(ArtifactRoot(env), fs, handles[i], attr).ret
                   = StoredText(handles[i], attr)

\* C10: after a setter call whose write failed the field holds in memory what
\* it held before the call; after one whose write succeeded the field holds
\* the new value in memory and the entry the setter wrote holds its bytes.
C10_SetterAtomic ==
    last.op = "setter"
        => IF last.err # ""
           THEN handles[last.h][last.attr] = last.before
           ELSE /\ handles[last.h][last.attr] = Some(last.value)
                /\ IsFile(fs, PathOf(last.path))
                /\ fs.files[PathOf(last.path)] = encode(last.value)

\* a setter whose write failed after truncating the entry, on a field that
\* held another value
C10_Witness ==
    /\ last.op = "setter"
    /\ last.err # ""
    /\ last.changed
    /\ last.before # Some(last.value)

----------------------------------------------------------------------------
(* Properties of the stores used directly, under SpecStore and SpecSymbols. *)

\* C11: PathStore round trip.  From every reachable store state, keys that
\* are path prefixes or extensions of k having been written, add(k, b)
\* returns and the get(k) that follows returns exactly b.
\* The code does not have it: add(k, b) raises when k is a directory made for
\* a longer key, or when a prefix of k holds a blob.
C11_RoundTrip ==
    last.op = "PathStore.add" =>
        /\ last.err = ""
        /\ PathStore_get(ArtifactRoot(env), fs, last.key) = [err |-> "", data |-> Some(last.value)]

\* C12: get(k) for a key k that was never written with add returns absent and
\* does not raise, also when k is a path prefix of a written key.  (A key
\* that holds a file copied by add_directory is left out of the statement.)
\* The code does not have it: for a key that is an intermediate directory the
\* open() of get raises IsADirectoryError.
C12_NeverWrittenAbsent ==
    (/\ last.op = "PathStore.get"
     /\ <<"add", last.key>> \notin written
     /\ ~IsFile(fs, Join(ArtifactRoot(env), ParsePath(last.key))))
    => (last.err = "" /\ last.ret = None)

\* C13: add_directory merges.  After an add_directory(key, src) that returned,
\* the key's subtree holds src's content at every relative path of src, the
\* other files that were in the subtree are unchanged, no file outside the
\* subtree changes (the directories leading to the key may be created), and
\* doing the same add_directory again changes nothing.
\* The code does not have the first part: a source file whose relative path
\* is a directory of the subtree is copied into that directory, under its own
\* name once more, and the call returns normally.
C13_Merge ==
    (last.op = "PathStore.add_directory" /\ last.err = "") =>
        LET dst == Join(ArtifactRoot(env), ParsePath(last.key))
            src == PathOf(last.src)
            put == {Rebase(q, src, dst) : q \in FilesUnder(last.old, src)}
        IN  /\ \A q \in FilesUnder(last.old, src) :
                   /\ IsFile(fs, Rebase(q, src, dst))
                   /\ fs.files[Rebase(q, src, dst)] = last.old.files[q]
            /\ \A t \in FilesUnder(last.old, dst) \ put :
                   IsFile(fs, t) /\ fs.files[t] = last.old.files[t]
            /\ remove(fs, dst).files = remove(last.old, dst).files
            /\ remove(fs, dst).dirs \ Ancestors(dst) = remove(last.old, dst).dirs \ Ancestors(dst)
            /\ PathStore_add_directory(ArtifactRoot(env), fs, last.key, src, "",
                                       Whole(fs, src)).fs = fs

----------------------------------------------------------------------------
(* Further properties of fetch-or-reuse and of symbol resolution, under     *)
(* Spec.                                                                    *)

\* C14: scoped temporary resources.  Whichever way a call of
\* get_or_fetch_artifacts or get_symbols_for_job_id ends, normally or with an
\* error raised at any of its steps, the temporary directory of
\* add_gitlab_job_artifacts_to_artifact_store, the temporary file of
\* download_job_artifacts and the temporary directory of the extraction step
\* are gone when it has ended: nothing exists at or below them.
C14_TempRemoved ==
    \A t \in {TempArtifacts, TempDownload, TempSymbols} :
        SubTree(fs, t) = EmptyFS

\* a download failed after its temporary file and directory were made, and
\* a resolution failed while copying out of its temporary directory
C14_Witness ==
    \/ /\ last.fault.at = "dl" /\ last.fault.how \in {"artifacts", "extractall"}
       /\ last.err # ""
    \/ /\ last.fault = [at |-> "sym", how |-> "copy"]
       /\ last.err # ""

\* C15: interrupted population.  After a call in which the copy into the
\* Artifact Store was interrupted, ArtifactStore.get for the job being
\* fetched returns absent; after a call in which the copy into the Symbol
\* Store was interrupted, SymbolStore.get for the version returns absent.
\* The code does not have it: add_directory creates the entry's directory
\* before it copies, and both lookups only test that a directory exists.
C15_InterruptedAbsent ==
    /\ (last.op = "get_or_fetch_artifacts" /\ last.fault = [at |-> "add", how |-> "copy"])
       => ~ArtifactStore_get(ArtifactRoot(env), fs, ProjectId, last.job).set
    /\ (last.op = "get_symbols_for_job_id" /\ last.fault = [at |-> "add", how |-> "copy"])
       => ~ArtifactStore_get(ArtifactRoot(env), fs, ProjectId, last.package).set
    /\ last.fault = [at |-> "sym", how |-> "copy"]
       => ~SymbolStore_get(SymbolRoot(env), fs, last.value).set

\* C16: step 4 of the resolution.  Whenever a call of get_symbols_for_job_id
\* in which nothing fails from outside determines a version, by the fast
\* path or by the slow path, and the Symbol Store has no entry for it, the
\* call returns a path and the Symbol Store has an entry for the version
\* afterwards.
\* The code does not have it: on the fast path no statement binds debug_zip,
\* and the extraction of line 279 raises UnboundLocalError.
C16_MissingSymbolsExtracted ==
    (/\ last.op = "get_symbols_for_job_id"
     /\ last.symhit = "miss"
     /\ last.fault = NoFault)
    => /\ last.err = ""
       /\ last.path.set
       /\ SymbolStore_get(SymbolRoot(env), fs, last.value).set

\* the artifacts of the package job of the last resolution, as cached
PackageTree == Artifacts_get(ArtifactRoot(env), fs, Artifacts_init(ProjectId, last.package))

\* the last call was a resolution that went to the package job's cached
\* artifacts and they hold no *.debug.zip
NoDebugArchive ==
    /\ last.op = "get_symbols_for_job_id"
    /\ last.looked
    /\ PackageTree.set
    /\ glob_suffix(fs, PackageTree, ".debug.zip") = {}

\* C17: missing debug archive.  A resolution that finds no *.debug.zip in the
\* package job's artifacts fails: it raises and returns no path; no version is
\* recorded in the entry of the original job nor in the entry of the package
\* job, and the Symbol Store is as it was before the call.
C17_MissingArchiveFails ==
    NoDebugArchive =>
        /\ last.err # ""
        /\ ~last.path.set
        /\ ~Stored(fs, env, Artifacts_init(ProjectId, last.job), "version").set
        /\ ~Stored(fs, env, Artifacts_init(ProjectId, last.package), "version").set
        /\ ~last.symsChanged

\* the package job's archive holds no debug archive, and the resolution, in
\* which nothing failed from outside, raised at the lookup of line 276
C17_Witness ==
    /\ NoDebugArchive
    /\ active_project = "nozip"
    /\ last.fault = NoFault
    /\ last.err = "UnboundLocalError"

\* C18: fetch-or-reuse postcondition.  In every reachable cache state, a
\* get_or_fetch_artifacts(project, job) that returns normally returns a handle
\* whose get() is not absent: its raw-artifact subtree exists.
\* The code does not have it: after a resolution created the entry of a job
\* to record its version, the lookup finds the entry and the handle is
\* returned without a download.
C18_FetchedHasArtifacts ==
    (last.op = "get_or_fetch_artifacts" /\ last.err = "") => last.path.set

\* C19: the resolution does not rewrite Symbol Store entries.  A call of
\* get_symbols_for_job_id that finds a Symbol Store entry for the version it
\* resolved returns normally, returns the path of that entry, and leaves
\* everything at and below the Symbol Store's root as it was; a call that
\* changes the Symbol Store is one that found no entry for its version.
C19_SymbolsNotRewritten ==
    /\ (last.op = "get_symbols_for_job_id" /\ last.symhit = "hit")
       => /\ last.err = ""
          /\ last.path.set
          /\ last.path = SymbolStore_get(SymbolRoot(env), fs, last.value)
          /\ ~last.symsChanged
    /\ (last.op = "get_symbols_for_job_id" /\ last.symsChanged)
       => last.symhit = "miss"

\* a slow-path resolution found the entry of its version in the Symbol Store
C19_Witness ==
    /\ last.op = "get_symbols_for_job_id"
    /\ last.branch = "slow"
    /\ last.symhit = "hit"
    /\ last.path.set

\* C20: SymbolStore.add(v, src) on an empty Symbol Store returns
\* <root>/<v>/symbols, src's files are stored below the returned path, and
\* get(v) returns the same path, whether the root is absolute or relative;
\* get(v) returns absent for a version that was never added.
\* The code does not have it for a relative root: add passes str(dst), which
\* starts with the root, as the key, and PathStore joins the key to the root
\* once more.
C20_SymbolStorePaths ==
    LET v   == last.key[1]
        dst == SymbolStore_dst(SymbolRoot(env), v)
        src == PathOf(last.src)
    IN  /\ (/\ last.op = "SymbolStore.add"
            /\ last.err = ""
            /\ SubTree(last.old, SymbolRoot(env)) = EmptyFS)
           => /\ last.path = SomePath(dst)
              /\ \A q \in FilesUnder(last.old, src) :
                     /\ IsFile(fs, Rebase(q, src, dst))
                     /\ fs.files[Rebase(q, src, dst)] = last.old.files[q]
              /\ SymbolStore_get(SymbolRoot(env), fs, v) = last.path
        /\ (last.op = "SymbolStore.get" /\ <<"symbols", last.key>> \notin written)
           => ~last.path.set

====
